---- MODULE Spec2Model ----
(***************************************************************************)
(* Model of text2video's generation core:                                  *)
(*   engine.py   load_pipeline (the single-slot pipeline cache),           *)
(*               generate_video (try / except Exception / finally),        *)
(*               cleanup_memory                                            *)
(*   storage.py  record_generation (best-effort persistence)               *)
(*                                                                         *)
(* Every caller is a thread of the one Python process.  A thread's frame   *)
(* is the record thr[t]; its field pc is the source line the thread is     *)
(* about to execute.  The module-level global _cached_pipe is the variable *)
(* cached_pipe (0 stands for None, a positive number is the identity of a  *)
(* WanPipeline object).  Library calls (from_pretrained, the pipeline      *)
(* call, db.add_generation) either return or raise; which of the two is    *)
(* the environment's choice.                                               *)
(***************************************************************************)
EXTENDS Naturals, Sequences, FiniteSets

VARIABLES
    cached_pipe,  \* engine.py:67   _cached_pipe; 0 = None
    heap,         \* live WanPipeline objects: identity -> attributes set by the load steps
    nextId,       \* identity the next constructed WanPipeline gets
    host,         \* torch.backends.mps.is_available(), torch.cuda.is_available()
    thr,          \* per thread: the frame of the call it is executing
    calls,        \* calls started so far
    loadStarts,   \* times line 85 (first step of the load sequence) was entered
    stored,       \* identities assigned to _cached_pipe at line 110, in order
    returned,     \* identities load_pipeline has returned (lines 75 and 111)
    db            \* rows created by db.add_generation

vars == <<cached_pipe, heap, nextId, host, thr, calls, loadStarts, stored,
          returned, db>>

\* ------------------------------------------------------------------ bounds
MaxCalls == 3

Threads == {"t1", "t2"}

\* device hints a caller of load_pipeline may pass; "None" is the default
DeviceHints == {"None", "cpu", "cuda"}

\* fields a caller of record_generation passes (prompt, filename)
Prompts == {"a cat", "a dog"}

\* ------------------------------------------------------------------ frames
\* diffusers' pipeline output: .frames is a list of frame sequences (engine.py:133)
PipeFrames == <<"frames0", "frames1">>

\* The frame of a thread that has made no call yet.
IdleFrame ==
    [pc       |-> "idle",     \* source position
     op       |-> "none",     \* the call the caller made
     hint     |-> "None",     \* the device argument the caller passed
     device   |-> "None",     \* load_pipeline's parameter device
     sawEmpty |-> FALSE,      \* outcome of the test at line 73
     probes   |-> 0,          \* detect_device() invocations in this call
     trace    |-> <<>>,       \* load steps completed in this call, in order
     vae      |-> FALSE,      \* load_pipeline's local vae is bound
     lpPipe   |-> 0,          \* load_pipeline's local pipe
     gvPipe   |-> 0,          \* generate_video's local pipe
     computed |-> "no",       \* the pipeline call: "no", "running", "ended"
     video    |-> "unbound",  \* generate_video's local video
     exc      |-> "",         \* exception in flight / raised to the caller
     caught   |-> "",         \* exception an except clause of this call caught
     errors   |-> 0,          \* logger.error entries written by this call
     cleanup  |-> <<>>,       \* reclamation calls made by this call, in order
     ret      |-> "none",     \* how the call ended: "return" or "raise"
     retPipe  |-> 0,          \* the pipeline load_pipeline handed to the caller
     retVal   |-> "",         \* generate_video's return value
     retId    |-> 0,          \* record_generation's return value; 0 = None
     args     |-> [prompt |-> ""],  \* the fields passed to record_generation
     dbCalls  |-> 0]          \* db.add_generation invocations in this call

\* The frame at the start of a call: every per-call field is fresh.
NewCall(o, dev, line) ==
    [IdleFrame EXCEPT !.op = o, !.hint = dev, !.device = dev, !.pc = line]

Init ==
    /\ cached_pipe = 0
    /\ heap = <<>>
    /\ nextId = 1
    /\ host \in [mps : BOOLEAN, cuda : BOOLEAN]
    /\ thr = [t \in Threads |-> IdleFrame]
    /\ calls = 0
    /\ loadStarts = 0
    /\ stored = <<>>
    /\ returned = {}
    /\ db = <<>>

\* hardware.detect_device(): the best available device class, dedicated
\* accelerator first, then unified-memory accelerator, then CPU.
DetectDevice ==
    IF host.cuda THEN "cuda" ELSE IF host.mps THEN "mps" ELSE "cpu"

\* the heap without object p (p = 0: nothing to drop)
Drop(h, p) == [q \in (DOMAIN h) \ {p} |-> h[q]]

\* ---------------------------------------------------- load_pipeline, returns
\* The frame of thread t after load_pipeline returns p to its caller: the
\* caller of acquire receives p; generate_video binds it to pipe (line 119)
\* and goes on to the pipeline call.
LpReturn(t, p) ==
    IF thr[t].op = "acquire"
    THEN [thr[t] EXCEPT !.pc = "idle", !.ret = "return", !.retPipe = p, !.lpPipe = 0]
    ELSE [thr[t] EXCEPT !.pc = "gv_call", !.gvPipe = p, !.lpPipe = 0]

\* The frame of thread t after a load step raises e: load_pipeline has no
\* handler, so e leaves it. In generate_video it is raised inside the try
\* block of line 116: an Exception goes to the handler of line 134, anything
\* else straight to the finally block with e still in flight.
LpRaise(t, e) ==
    IF thr[t].op = "acquire"
    THEN [thr[t] EXCEPT !.pc = "idle", !.ret = "raise", !.exc = e,
                        !.lpPipe = 0, !.vae = FALSE]
    ELSE [thr[t] EXCEPT !.pc = IF e = "Exception" THEN "gv_except" ELSE "gv_finally",
                        !.exc = e, !.lpPipe = 0, !.vae = FALSE]

\* outcomes of a library call made by the load sequence
LoadOutcomes == {"ok", "raise"}

\* ------------------------------------------------------ load_pipeline, steps
\* A caller calls load_pipeline(device) (the acquire operation).
StartAcquire(t) ==
    /\ thr[t].pc = "idle"
    /\ calls < MaxCalls
    /\ \E dev \in DeviceHints :
           thr' = [thr EXCEPT ![t] = NewCall("acquire", dev, "lp_check")]
    /\ calls' = calls + 1
    /\ UNCHANGED <<cached_pipe, heap, nextId, host, loadStarts, stored, returned, db>>

\* line 73 with the test lost: the load path is always taken
LpCheck_IgnoreCache(t) ==
    /\ thr[t].pc = "lp_check"
    /\ thr' = [thr EXCEPT ![t] = [@ EXCEPT !.pc = "lp_detect", !.sawEmpty = TRUE]]
    /\ UNCHANGED <<cached_pipe, heap, nextId, host, calls, loadStarts, stored,
                   returned, db>>

\* line 73: if _cached_pipe is not None
LpCheck(t) ==
    /\ thr[t].pc = "lp_check"
    /\ thr' = [thr EXCEPT ![t] =
                 IF cached_pipe # 0
                 THEN [@ EXCEPT !.pc = "lp_fast", !.sawEmpty = FALSE]
                 ELSE [@ EXCEPT !.pc = "lp_detect", !.sawEmpty = TRUE]]
    /\ UNCHANGED <<cached_pipe, heap, nextId, host, calls, loadStarts, stored,
                   returned, db>>

\* lines 74-75: return _cached_pipe (the global is read again)
LpFast(t) ==
    /\ thr[t].pc = "lp_fast"
    /\ thr' = [thr EXCEPT ![t] = LpReturn(t, cached_pipe)]
    /\ returned' = returned \cup {cached_pipe}
    /\ UNCHANGED <<cached_pipe, heap, nextId, host, calls, loadStarts, stored, db>>

\* lines 77-79 with the test lost: detect_device() is called whatever the hint
LpDetect_AlwaysProbe(t) ==
    /\ thr[t].pc = "lp_detect"
    /\ thr' = [thr EXCEPT ![t] =
                 [@ EXCEPT !.pc = "lp_vae", !.device = DetectDevice, !.probes = @ + 1]]
    /\ UNCHANGED <<cached_pipe, heap, nextId, host, calls, loadStarts, stored,
                   returned, db>>

\* lines 77-79: if device is None: device = detect_device()
LpDetect(t) ==
    /\ thr[t].pc = "lp_detect"
    /\ thr' = [thr EXCEPT ![t] =
                 IF thr[t].device = "None"
                 THEN [@ EXCEPT !.pc = "lp_vae", !.device = DetectDevice,
                                !.probes = @ + 1]
                 ELSE [@ EXCEPT !.pc = "lp_vae"]]
    /\ UNCHANGED <<cached_pipe, heap, nextId, host, calls, loadStarts, stored,
                   returned, db>>

\* lines 85-86: vae = AutoencoderKLWan.from_pretrained(...)
LpVae(t) ==
    /\ thr[t].pc = "lp_vae"
    /\ loadStarts' = loadStarts + 1
    /\ \E o \in LoadOutcomes :
           thr' = [thr EXCEPT ![t] =
                     IF o = "ok"
                     THEN [@ EXCEPT !.pc = "lp_pipe", !.vae = TRUE,
                                    !.trace = Append(@, "vae")]
                     ELSE LpRaise(t, "Exception")]
    /\ UNCHANGED <<cached_pipe, heap, nextId, host, calls, stored, returned, db>>

\* lines 87-88 assigning the new pipeline to _cached_pipe at once
LpPipe_StoreEarly(t) ==
    /\ thr[t].pc = "lp_pipe"
    /\ \E o \in LoadOutcomes :
           IF o = "ok"
           THEN /\ heap' = [q \in (DOMAIN heap) \cup {nextId} |->
                              IF q = nextId
                              THEN [vae |-> thr[t].vae, df11 |-> FALSE,
                                    df11_2 |-> FALSE, offload |-> FALSE]
                              ELSE heap[q]]
                /\ nextId' = nextId + 1
                /\ cached_pipe' = nextId
                /\ thr' = [thr EXCEPT ![t] =
                             [@ EXCEPT !.pc = "lp_df1", !.lpPipe = nextId,
                                       !.trace = Append(@, "pipe")]]
           ELSE /\ thr' = [thr EXCEPT ![t] = LpRaise(t, "Exception")]
                /\ UNCHANGED <<heap, nextId, cached_pipe>>
    /\ UNCHANGED <<host, calls, loadStarts, stored, returned, db>>

\* lines 87-88: pipe = WanPipeline.from_pretrained(..., vae=vae, ...)
LpPipe(t) ==
    /\ thr[t].pc = "lp_pipe"
    /\ \E o \in LoadOutcomes :
           IF o = "ok"
           THEN /\ heap' = [q \in (DOMAIN heap) \cup {nextId} |->
                              IF q = nextId
                              THEN [vae |-> thr[t].vae, df11 |-> FALSE,
                                    df11_2 |-> FALSE, offload |-> FALSE]
                              ELSE heap[q]]
                /\ nextId' = nextId + 1
                /\ thr' = [thr EXCEPT ![t] =
                             [@ EXCEPT !.pc = "lp_df1", !.lpPipe = nextId,
                                       !.trace = Append(@, "pipe")]]
           ELSE /\ thr' = [thr EXCEPT ![t] = LpRaise(t, "Exception")]
                /\ UNCHANGED <<heap, nextId>>
    /\ UNCHANGED <<cached_pipe, host, calls, loadStarts, stored, returned, db>>

\* A load step that works on the pipeline object bound to the local pipe:
\* on success it sets attribute `attr` of the object and goes to `next`; on
\* failure the exception leaves load_pipeline and the object is unreferenced.
LpObjectStep(t, attr, next) ==
    \E o \in LoadOutcomes :
        IF o = "ok"
        THEN /\ heap' = [heap EXCEPT ![thr[t].lpPipe] = [@ EXCEPT ![attr] = TRUE]]
             /\ thr' = [thr EXCEPT ![t] =
                          [@ EXCEPT !.pc = next, !.trace = Append(@, attr)]]
        ELSE /\ heap' = Drop(heap, thr[t].lpPipe)
             /\ thr' = [thr EXCEPT ![t] = LpRaise(t, "Exception")]

\* lines 91-97: DFloat11Model.from_pretrained(..., bfloat16_model=pipe.transformer)
LpDf1(t) ==
    /\ thr[t].pc = "lp_df1"
    /\ LpObjectStep(t, "df11", "lp_df2")
    /\ UNCHANGED <<cached_pipe, nextId, host, calls, loadStarts, stored,
                   returned, db>>

\* lines 98-110 with line 106 after line 110: the slot is written before
\* offload has been enabled
LpDf2_StoreBeforeOffload(t) ==
    /\ thr[t].pc = "lp_df2"
    /\ LpObjectStep(t, "df11_2", "lp_store")
    /\ UNCHANGED <<cached_pipe, nextId, host, calls, loadStarts, stored,
                   returned, db>>

\* lines 98-104: DFloat11Model.from_pretrained(..., bfloat16_model=pipe.transformer_2)
LpDf2(t) ==
    /\ thr[t].pc = "lp_df2"
    /\ LpObjectStep(t, "df11_2", "lp_offload")
    /\ UNCHANGED <<cached_pipe, nextId, host, calls, loadStarts, stored,
                   returned, db>>

\* line 106: pipe.enable_model_cpu_offload()
LpOffload(t) ==
    /\ thr[t].pc = "lp_offload"
    /\ LpObjectStep(t, "offload", "lp_store")
    /\ UNCHANGED <<cached_pipe, nextId, host, calls, loadStarts, stored,
                   returned, db>>

\* line 110 guarded by a second test of the slot: a call that finds the slot
\* filled meanwhile drops its own pipeline and uses the cached one
LpStore_RecheckSlot(t) ==
    /\ thr[t].pc = "lp_store"
    /\ IF cached_pipe # 0
       THEN /\ thr' = [thr EXCEPT ![t] =
                         [@ EXCEPT !.pc = "lp_return", !.lpPipe = cached_pipe]]
            /\ heap' = Drop(heap, thr[t].lpPipe)
            /\ UNCHANGED <<cached_pipe, stored>>
       ELSE /\ cached_pipe' = thr[t].lpPipe
            /\ stored' = Append(stored, thr[t].lpPipe)
            /\ thr' = [thr EXCEPT ![t] = [@ EXCEPT !.pc = "lp_return"]]
            /\ heap' = heap
    /\ UNCHANGED <<nextId, host, calls, loadStarts, returned, db>>

\* line 110: _cached_pipe = pipe
LpStore(t) ==
    /\ thr[t].pc = "lp_store"
    /\ cached_pipe' = thr[t].lpPipe
    /\ stored' = Append(stored, thr[t].lpPipe)
    /\ thr' = [thr EXCEPT ![t] = [@ EXCEPT !.pc = "lp_return"]]
    /\ UNCHANGED <<heap, nextId, host, calls, loadStarts, returned, db>>

\* line 111: return pipe
LpRet(t) ==
    /\ thr[t].pc = "lp_return"
    /\ thr' = [thr EXCEPT ![t] = LpReturn(t, thr[t].lpPipe)]
    /\ returned' = returned \cup {thr[t].lpPipe}
    /\ UNCHANGED <<cached_pipe, heap, nextId, host, calls, loadStarts, stored, db>>

\* ------------------------------------------------------------ generate_video
\* outcomes of the pipeline call: frames, an Exception raised by the
\* computation, or an interruption (KeyboardInterrupt, not an Exception)
\* arriving while it runs
ComputeOutcomes == {"ok", "raise", "interrupt"}

\* lines 137-144, the calls the finally block makes, in order
FinallyCalls ==
    <<"gc.collect">>
      \o (IF host.mps THEN <<"mps.empty_cache">> ELSE <<>>)
      \o (IF host.cuda THEN <<"cuda.empty_cache">> ELSE <<>>)

\* lines 149-154, the calls cleanup_memory makes, in order
CleanupCalls ==
    <<"gc.collect">>
      \o (IF host.mps THEN <<"mps.empty_cache">> ELSE <<>>)
      \o (IF host.cuda THEN <<"cuda.empty_cache">> ELSE <<>>)

\* lines 113-119: a caller calls generate_video(prompt); the try block is
\* entered and load_pipeline() is called without a device.
StartGenerate(t) ==
    /\ thr[t].pc = "idle"
    /\ calls < MaxCalls
    /\ thr' = [thr EXCEPT ![t] = NewCall("generate", "None", "lp_check")]
    /\ calls' = calls + 1
    /\ UNCHANGED <<cached_pipe, heap, nextId, host, loadStarts, stored, returned, db>>

\* lines 121-124: with torch.inference_mode(): pipe(...) is invoked
GvCall(t) ==
    /\ thr[t].pc = "gv_call"
    /\ thr' = [thr EXCEPT ![t] = [@ EXCEPT !.pc = "gv_running", !.computed = "running"]]
    /\ UNCHANGED <<cached_pipe, heap, nextId, host, calls, loadStarts, stored,
                   returned, db>>

\* lines 124-133 taking the last frame sequence, .frames[-1], not the first
GvCompute_LastFrames(t) ==
    /\ thr[t].pc = "gv_running"
    /\ \E o \in ComputeOutcomes :
           thr' = [thr EXCEPT ![t] =
                     CASE o = "ok" ->
                            [@ EXCEPT !.pc = "gv_finally", !.computed = "ended",
                                      !.video = PipeFrames[Len(PipeFrames)]]
                       [] o = "raise" ->
                            [@ EXCEPT !.pc = "gv_except", !.computed = "ended",
                                      !.exc = "Exception"]
                       [] o = "interrupt" ->
                            [@ EXCEPT !.pc = "gv_finally", !.computed = "ended",
                                      !.exc = "KeyboardInterrupt"]]
    /\ UNCHANGED <<cached_pipe, heap, nextId, host, calls, loadStarts, stored,
                   returned, db>>

\* lines 124-133: the computation ends: video = pipe(...).frames[0], or an
\* exception leaves the try block
GvCompute(t) ==
    /\ thr[t].pc = "gv_running"
    /\ \E o \in ComputeOutcomes :
           thr' = [thr EXCEPT ![t] =
                     CASE o = "ok" ->
                            [@ EXCEPT !.pc = "gv_finally", !.computed = "ended",
                                      !.video = PipeFrames[1]]
                       [] o = "raise" ->
                            [@ EXCEPT !.pc = "gv_except", !.computed = "ended",
                                      !.exc = "Exception"]
                       [] o = "interrupt" ->
                            [@ EXCEPT !.pc = "gv_finally", !.computed = "ended",
                                      !.exc = "KeyboardInterrupt"]]
    /\ UNCHANGED <<cached_pipe, heap, nextId, host, calls, loadStarts, stored,
                   returned, db>>

\* lines 134-135: except Exception as e: logger.error(...)
GvExcept(t) ==
    /\ thr[t].pc = "gv_except"
    /\ thr' = [thr EXCEPT ![t] =
                 [@ EXCEPT !.pc = "gv_finally", !.errors = @ + 1,
                           !.caught = thr[t].exc, !.exc = ""]]
    /\ UNCHANGED <<cached_pipe, heap, nextId, host, calls, loadStarts, stored,
                   returned, db>>

\* lines 139-144 run only after an error (as the comment at line 141 reads):
\* a successful call reclaims but flushes no accelerator cache
GvFinally_FlushOnErrorOnly(t) ==
    /\ thr[t].pc = "gv_finally"
    /\ thr' = [thr EXCEPT ![t] =
                 IF thr[t].exc # ""
                 THEN [@ EXCEPT !.pc = "idle", !.ret = "raise",
                                !.cleanup = @ \o FinallyCalls, !.gvPipe = 0]
                 ELSE [@ EXCEPT !.pc = "gv_return",
                                !.cleanup = @ \o (IF thr[t].caught # ""
                                                  THEN FinallyCalls
                                                  ELSE <<"gc.collect">>)]]
    /\ UNCHANGED <<cached_pipe, heap, nextId, host, calls, loadStarts, stored,
                   returned, db>>

\* lines 137-144 placed after the try statement instead of in a finally
\* block: skipped when an exception is in flight
GvFinally_SkipInFlight(t) ==
    /\ thr[t].pc = "gv_finally"
    /\ thr' = [thr EXCEPT ![t] =
                 IF thr[t].exc # ""
                 THEN [@ EXCEPT !.pc = "idle", !.ret = "raise", !.gvPipe = 0]
                 ELSE [@ EXCEPT !.pc = "gv_return",
                                !.cleanup = @ \o FinallyCalls]]
    /\ UNCHANGED <<cached_pipe, heap, nextId, host, calls, loadStarts, stored,
                   returned, db>>

\* lines 136-144: the finally block; an exception still in flight leaves
\* generate_video after it, otherwise line 146 is next
GvFinally(t) ==
    /\ thr[t].pc = "gv_finally"
    /\ thr' = [thr EXCEPT ![t] =
                 IF thr[t].exc # ""
                 THEN [@ EXCEPT !.pc = "idle", !.ret = "raise",
                                !.cleanup = @ \o FinallyCalls, !.gvPipe = 0]
                 ELSE [@ EXCEPT !.pc = "gv_return",
                                !.cleanup = @ \o FinallyCalls]]
    /\ UNCHANGED <<cached_pipe, heap, nextId, host, calls, loadStarts, stored,
                   returned, db>>

\* line 146: return video; reading a local that was never bound raises
\* UnboundLocalError
GvReturn(t) ==
    /\ thr[t].pc = "gv_return"
    /\ thr' = [thr EXCEPT ![t] =
                 IF thr[t].video = "unbound"
                 THEN [@ EXCEPT !.pc = "idle", !.ret = "raise",
                                !.exc = "UnboundLocalError", !.gvPipe = 0]
                 ELSE [@ EXCEPT !.pc = "idle", !.ret = "return",
                                !.retVal = thr[t].video, !.gvPipe = 0]]
    /\ UNCHANGED <<cached_pipe, heap, nextId, host, calls, loadStarts, stored,
                   returned, db>>

\* ------------------------------------------------------------ cleanup_memory
\* lines 148-154
CleanupMemory(t) ==
    /\ thr[t].pc = "idle"
    /\ calls < MaxCalls
    /\ thr' = [thr EXCEPT ![t] =
                 [NewCall("cleanup", "None", "idle") EXCEPT
                     !.cleanup = CleanupCalls, !.ret = "return", !.retVal = "None"]]
    /\ calls' = calls + 1
    /\ UNCHANGED <<cached_pipe, heap, nextId, host, loadStarts, stored, returned, db>>

\* --------------------------------------------------------- record_generation
\* the fields a caller passes (storage.py:25-36), cut down to the prompt
RecordFields == [prompt : Prompts]

\* outcomes of db.add_generation: a new row, a persistence failure (an
\* Exception), or an interruption
DbOutcomes == {"ok", "raise", "interrupt"}

\* db.add_generation(..., status=..., ...): appends a row and returns its id
AddGeneration(rows, f, st) ==
    Append(rows, [id |-> Len(rows) + 1, fields |-> f, status |-> st])

\* storage.py:42-57 made idempotent: a row with the same fields is reused
\* instead of calling db.add_generation
RecordGeneration_Dedup(t) ==
    /\ thr[t].pc = "idle"
    /\ calls < MaxCalls
    /\ calls' = calls + 1
    /\ \E f \in RecordFields, o \in DbOutcomes :
         IF \E i \in DOMAIN db : db[i].fields = f
         THEN /\ db' = db
              /\ thr' = [thr EXCEPT ![t] =
                           [NewCall("record", "None", "idle") EXCEPT
                               !.args = f, !.ret = "return",
                               !.retId = (CHOOSE i \in DOMAIN db : db[i].fields = f)]]
         ELSE CASE o = "ok" ->
                     /\ db' = AddGeneration(db, f, "succeeded")
                     /\ thr' = [thr EXCEPT ![t] =
                                  [NewCall("record", "None", "idle") EXCEPT
                                      !.args = f, !.dbCalls = 1,
                                      !.ret = "return", !.retId = Len(db) + 1]]
                [] o = "raise" ->
                     /\ db' = db
                     /\ thr' = [thr EXCEPT ![t] =
                                  [NewCall("record", "None", "idle") EXCEPT
                                      !.args = f, !.dbCalls = 1,
                                      !.ret = "return", !.retId = 0,
                                      !.caught = "Exception", !.errors = 1]]
                [] o = "interrupt" ->
                     /\ db' = db
                     /\ thr' = [thr EXCEPT ![t] =
                                  [NewCall("record", "None", "idle") EXCEPT
                                      !.args = f, !.dbCalls = 1,
                                      !.ret = "raise", !.exc = "KeyboardInterrupt"]]
    /\ UNCHANGED <<cached_pipe, heap, nextId, host, loadStarts, stored, returned>>

\* storage.py:54 passing a status that depends on the call instead of the
\* literal "succeeded"
RecordGeneration_CallerStatus(t) ==
    /\ thr[t].pc = "idle"
    /\ calls < MaxCalls
    /\ calls' = calls + 1
    /\ \E f \in RecordFields, o \in DbOutcomes :
         CASE o = "ok" ->
                /\ \E st \in {"succeeded", "failed"} : db' = AddGeneration(db, f, st)
                /\ thr' = [thr EXCEPT ![t] =
                             [NewCall("record", "None", "idle") EXCEPT
                                 !.args = f, !.dbCalls = 1,
                                 !.ret = "return", !.retId = Len(db) + 1]]
           [] o = "raise" ->
                /\ db' = db
                /\ thr' = [thr EXCEPT ![t] =
                             [NewCall("record", "None", "idle") EXCEPT
                                 !.args = f, !.dbCalls = 1,
                                 !.ret = "return", !.retId = 0,
                                 !.caught = "Exception", !.errors = 1]]
           [] o = "interrupt" ->
                /\ db' = db
                /\ thr' = [thr EXCEPT ![t] =
                             [NewCall("record", "None", "idle") EXCEPT
                                 !.args = f, !.dbCalls = 1,
                                 !.ret = "raise", !.exc = "KeyboardInterrupt"]]
    /\ UNCHANGED <<cached_pipe, heap, nextId, host, loadStarts, stored, returned>>

\* storage.py:24-60 without the except clause: the backend's failure
\* reaches the caller
RecordGeneration_NoHandler(t) ==
    /\ thr[t].pc = "idle"
    /\ calls < MaxCalls
    /\ calls' = calls + 1
    /\ \E f \in RecordFields, o \in DbOutcomes :
         CASE o = "ok" ->
                /\ db' = AddGeneration(db, f, "succeeded")
                /\ thr' = [thr EXCEPT ![t] =
                             [NewCall("record", "None", "idle") EXCEPT
                                 !.args = f, !.dbCalls = 1,
                                 !.ret = "return", !.retId = Len(db) + 1]]
           [] o = "raise" ->
                /\ db' = db
                /\ thr' = [thr EXCEPT ![t] =
                             [NewCall("record", "None", "idle") EXCEPT
                                 !.args = f, !.dbCalls = 1,
                                 !.ret = "raise", !.exc = "Exception"]]
           [] o = "interrupt" ->
                /\ db' = db
                /\ thr' = [thr EXCEPT ![t] =
                             [NewCall("record", "None", "idle") EXCEPT
                                 !.args = f, !.dbCalls = 1,
                                 !.ret = "raise", !.exc = "KeyboardInterrupt"]]
    /\ UNCHANGED <<cached_pipe, heap, nextId, host, loadStarts, stored, returned>>

\* storage.py:24-60
RecordGeneration(t) ==
    /\ thr[t].pc = "idle"
    /\ calls < MaxCalls
    /\ calls' = calls + 1
    /\ \E f \in RecordFields, o \in DbOutcomes :
         CASE o = "ok" ->
                /\ db' = AddGeneration(db, f, "succeeded")
                /\ thr' = [thr EXCEPT ![t] =
                             [NewCall("record", "None", "idle") EXCEPT
                                 !.args = f, !.dbCalls = 1,
                                 !.ret = "return", !.retId = Len(db) + 1]]
           [] o = "raise" ->
                /\ db' = db
                /\ thr' = [thr EXCEPT ![t] =
                             [NewCall("record", "None", "idle") EXCEPT
                                 !.args = f, !.dbCalls = 1,
                                 !.ret = "return", !.retId = 0,
                                 !.caught = "Exception", !.errors = 1]]
           [] o = "interrupt" ->
                /\ db' = db
                /\ thr' = [thr EXCEPT ![t] =
                             [NewCall("record", "None", "idle") EXCEPT
                                 !.args = f, !.dbCalls = 1,
                                 !.ret = "raise", !.exc = "KeyboardInterrupt"]]
    /\ UNCHANGED <<cached_pipe, heap, nextId, host, loadStarts, stored, returned>>

\* ------------------------------------------------------------ specifications
Step(t) ==
    \/ StartAcquire(t) \/ LpCheck(t) \/ LpFast(t) \/ LpDetect(t)
    \/ LpVae(t) \/ LpPipe(t) \/ LpDf1(t) \/ LpDf2(t) \/ LpOffload(t)
    \/ LpStore(t) \/ LpRet(t)
    \/ StartGenerate(t) \/ GvCall(t) \/ GvCompute(t) \/ GvExcept(t)
    \/ GvFinally(t) \/ GvReturn(t)
    \/ CleanupMemory(t)
    \/ RecordGeneration(t)

\* Threads of one process, interleaved at the granularity of the steps above.
Next == \E t \in Threads : Step(t)

Spec == Init /\ [][Next]_vars

\* A sequential run: a call is started only when no other call is in progress.
Alone(t) == \A u \in Threads \ {t} : thr[u].pc = "idle"

SeqNext == \E t \in Threads : Alone(t) /\ Step(t)

SpecSeq == Init /\ [][SeqNext]_vars

\* -------------------------------------------------------------------- claims
\* the steps of the load sequence, lines 85-106, in source order
LoadSteps == <<"vae", "pipe", "df11", "df11_2", "offload">>

\* number of entries of seq equal to x
Count(seq, x) == Cardinality({i \in DOMAIN seq : seq[i] = x})

\* thread t's call is over
Finished(t, o) == thr[t].op = o /\ thr[t].pc = "idle"

\* C1: in a sequential run, once a load_pipeline call has succeeded the load
\* sequence has been completed exactly once, every pipeline load_pipeline has
\* returned is the one in the slot, and no later call enters the load
\* sequence again.
C1_SingleLoad ==
    /\ [](cached_pipe # 0 =>
            /\ Len(stored) = 1
            /\ returned \subseteq {cached_pipe}
            /\ \A t \in Threads :
                 (Finished(t, "acquire") /\ thr[t].ret = "return")
                     => thr[t].retPipe = cached_pipe)
    /\ [][cached_pipe # 0 =>
            (loadStarts' = loadStarts /\ cached_pipe' = cached_pipe)]_vars

\* a second acquire has returned the cached pipeline without loading
C1_Witness ==
    \E t \in Threads :
        /\ Finished(t, "acquire") /\ thr[t].ret = "return"
        /\ ~thr[t].sawEmpty
        /\ thr[t].retPipe = cached_pipe
        /\ loadStarts = 1
        /\ calls >= 2

\* thread t's acquire, which found the cache EMPTY, ends in this step by raising
AcquireFails(t) ==
    /\ thr[t].op = "acquire" /\ thr[t].sawEmpty
    /\ thr[t].pc # "idle" /\ thr'[t].pc = "idle"
    /\ thr'[t].ret = "raise"

\* C2: in a sequential run, an acquire that found the cache EMPTY and had a
\* load step fail raises the failure to its caller and leaves the cache
\* EMPTY; the failure is not cached: an acquire ends by raising only when a
\* step of its own load sequence failed, and every acquire that found the
\* cache EMPTY and returned ran all the load steps, from the first, itself.
C2_LoadFailure ==
    /\ [][\A t \in Threads :
            AcquireFails(t) =>
                /\ thr'[t].exc = "Exception"
                /\ cached_pipe' = 0
                /\ cached_pipe = 0
                /\ stored' = stored]_vars
    /\ [](\A t \in Threads :
            Finished(t, "acquire") =>
                /\ thr[t].ret = "raise" =>
                     (thr[t].sawEmpty /\ Len(thr[t].trace) < Len(LoadSteps))
                /\ (thr[t].ret = "return" /\ thr[t].sawEmpty) =>
                     thr[t].trace = LoadSteps)

\* one acquire failed in a load step, and the next one loaded from scratch
C2_Witness ==
    \E t, u \in Threads :
        /\ Finished(t, "acquire") /\ thr[t].ret = "raise"
        /\ thr[t].trace = <<"vae", "pipe", "df11">>
        /\ Finished(u, "acquire") /\ thr[u].ret = "return"
        /\ thr[u].sawEmpty /\ thr[u].trace = LoadSteps
        /\ loadStarts = 2
        /\ cached_pipe = thr[u].retPipe

\* the computation of thread t's generate_video call raised an Exception
ComputationRaised(t) ==
    Finished(t, "generate") /\ thr[t].computed = "ended" /\ thr[t].caught = "Exception"

\* C3: when the computation raises during generate_video, one error entry
\* is logged and the call returns "no result" by a normal return; no
\* exception leaves generate_video.
C3_NoResultOnError ==
    \A t \in Threads :
        ComputationRaised(t) =>
            /\ thr[t].errors = 1
            /\ thr[t].ret = "return"
            /\ thr[t].exc = ""

\* C4: every generate_video call invokes gc.collect exactly once, whatever
\* the exit path, and not before the computation has ended: none while the
\* try block is executing, one once the call is over.
C4_ReclaimOnce ==
    \A t \in Threads :
        thr[t].op = "generate" =>
            /\ thr[t].pc = "idle" => Count(thr[t].cleanup, "gc.collect") = 1
            /\ thr[t].pc \notin {"idle", "gv_return"} => thr[t].cleanup = <<>>
            /\ thr[t].cleanup # <<>> => thr[t].computed # "running"

\* one generate_video call ended by an interruption of the computation and
\* another by an Exception of the computation, each after one gc.collect
C4_Witness ==
    \E t, u \in Threads :
        /\ Finished(t, "generate") /\ thr[t].computed = "ended"
        /\ thr[t].exc = "KeyboardInterrupt"
        /\ ComputationRaised(u)
        /\ Count(thr[t].cleanup, "gc.collect") = 1
        /\ Count(thr[u].cleanup, "gc.collect") = 1

\* the pipelines the load sequence has completed (offload enabled) that the
\* slot, a running call or a caller still references
Resident ==
    ({cached_pipe}
       \cup {thr[t].retPipe : t \in Threads}
       \cup {thr[t].gvPipe : t \in Threads}
       \cup {thr[t].lpPipe : t \in {u \in Threads : thr[u].pc \in {"lp_store", "lp_return"}}})
    \ {0}

\* C5: at most one Pipeline instance is resident in any reachable state.
C5_AtMostOneResident == Cardinality(Resident) <= 1

\* C6: record_generation called while db.add_generation fails returns None
\* without raising and logs one error entry; when the backend succeeds it
\* returns the id of the row the backend created, and logs nothing. No
\* Exception ever leaves record_generation.
C6_BestEffortRecord ==
    \A t \in Threads :
        Finished(t, "record") =>
            /\ thr[t].exc # "Exception"
            /\ thr[t].caught = "Exception" =>
                 (thr[t].ret = "return" /\ thr[t].retId = 0 /\ thr[t].errors = 1)
            /\ (thr[t].ret = "return" /\ thr[t].caught = "") =>
                 /\ thr[t].retId \in 1..Len(db)
                 /\ db[thr[t].retId].id = thr[t].retId
                 /\ thr[t].errors = 0

\* one record_generation call met a failing backend and returned None,
\* another met a working one and returned the new row's id
C6_Witness ==
    \E t, u \in Threads :
        /\ Finished(t, "record") /\ thr[t].caught = "Exception"
        /\ thr[t].ret = "return" /\ thr[t].retId = 0
        /\ Finished(u, "record") /\ thr[u].ret = "return" /\ thr[u].retId = 1

\* C7: once the slot holds a pipeline no step of any operation changes it.
C7_NeverReplaced ==
    [][cached_pipe # 0 => cached_pipe' = cached_pipe]_vars

\* the pipeline load_pipeline handed to thread t's call (0: none)
Holds(t) == IF thr[t].retPipe # 0 THEN thr[t].retPipe ELSE thr[t].gvPipe

\* C8: the slot is unsynchronized. Every caller that passed the emptiness
\* test and got a pipeline got one that its own call built by running the
\* whole load sequence and wrote to the slot, so two callers that both passed
\* the test hold different pipelines; the slot holds the one written last.
C8_UnsynchronizedSlot ==
    /\ cached_pipe = (IF stored = <<>> THEN 0 ELSE stored[Len(stored)])
    /\ \A t \in Threads :
         (thr[t].sawEmpty /\ Holds(t) # 0) =>
             /\ thr[t].trace = LoadSteps
             /\ \E i \in DOMAIN stored : stored[i] = Holds(t)
    /\ \A t, u \in Threads :
         (t # u /\ thr[t].sawEmpty /\ thr[u].sawEmpty
              /\ Holds(t) # 0 /\ Holds(u) # 0) => Holds(t) # Holds(u)

\* two acquire calls both passed the emptiness test, the load sequence ran
\* twice, the callers hold different pipelines and the slot the later one
C8_Witness ==
    \E t, u \in Threads :
        /\ Finished(t, "acquire") /\ Finished(u, "acquire")
        /\ thr[t].sawEmpty /\ thr[u].sawEmpty
        /\ thr[t].retPipe # 0 /\ thr[u].retPipe # 0
        /\ thr[t].retPipe # thr[u].retPipe
        /\ loadStarts = 2 /\ Len(stored) = 2
        /\ stored = <<thr[t].retPipe, thr[u].retPipe>>
        /\ cached_pipe = thr[u].retPipe

\* thread t's load_pipeline call is past lines 77-79
PastDetect(t) == thr[t].sawEmpty /\ thr[t].pc \notin {"lp_check", "lp_detect"}

\* C9: load_pipeline calls detect_device exactly when it found the slot
\* EMPTY and was given no device; a call that found the slot LOADED probes
\* nothing, runs no load step and hands back a pipeline that was in the slot.
C9_ProbeIffEmptyNoHint ==
    \A t \in Threads :
        thr[t].op \in {"acquire", "generate"} =>
            /\ thr[t].probes = (IF PastDetect(t) /\ thr[t].hint = "None" THEN 1 ELSE 0)
            /\ ~thr[t].sawEmpty =>
                 /\ thr[t].trace = <<>>
                 /\ Holds(t) # 0 => \E i \in DOMAIN stored : stored[i] = Holds(t)

\* one acquire loaded with a hint and did not probe; another, given a
\* different hint, found the slot LOADED and returned the cached pipeline
C9_Witness ==
    \E t, u \in Threads :
        /\ Finished(t, "acquire") /\ thr[t].hint = "cpu" /\ thr[t].sawEmpty
        /\ thr[t].ret = "return" /\ thr[t].probes = 0
        /\ Finished(u, "acquire") /\ thr[u].hint = "cuda" /\ ~thr[u].sawEmpty
        /\ thr[u].ret = "return" /\ thr[u].retPipe = thr[t].retPipe

\* s is an initial segment of LoadSteps
IsLoadPrefix(s) == Len(s) <= Len(LoadSteps) /\ \A i \in DOMAIN s : s[i] = LoadSteps[i]

\* C10: the load steps run in source order (VAE, pipeline, DFloat11 on
\* transformer, DFloat11 on transformer_2, offload), and the slot only ever
\* holds a pipeline on which all of them, offload last, have been done.
C10_LoadOrder ==
    /\ \A t \in Threads : IsLoadPrefix(thr[t].trace)
    /\ \A p \in DOMAIN heap :
         /\ heap[p].vae
         /\ heap[p].df11_2 => heap[p].df11
         /\ heap[p].offload => heap[p].df11_2
    /\ cached_pipe # 0 =>
         /\ cached_pipe \in DOMAIN heap
         /\ heap[cached_pipe].offload
    /\ \A t \in Threads :
         thr[t].pc \in {"lp_store", "lp_return"} => thr[t].trace = LoadSteps

\* the slot has just been written by a call that completed all five steps
C10_Witness ==
    \E t \in Threads :
        /\ thr[t].pc = "lp_return"
        /\ thr[t].trace = LoadSteps
        /\ cached_pipe = thr[t].lpPipe
        /\ heap[cached_pipe].offload

\* the load_pipeline call made by thread t's call did not return a pipeline:
\* it found the slot EMPTY and has not completed the load sequence
LoadIncomplete(t) == thr[t].sawEmpty /\ thr[t].trace # LoadSteps

\* C11: in generate_video the pipeline call is made only after load_pipeline
\* has returned a pipeline: while the computation runs the call holds a
\* pipeline and the slot is LOADED, and a call whose load_pipeline failed
\* never invokes the computation. A call whose computation ended without an
\* exception returns the first frame sequence and logs no error.
C11_ComputeAfterAcquire ==
    \A t \in Threads :
        thr[t].op = "generate" =>
            /\ thr[t].computed = "running" => (thr[t].gvPipe # 0 /\ cached_pipe # 0)
            /\ LoadIncomplete(t) => thr[t].computed = "no"
            /\ (thr[t].pc = "idle" /\ thr[t].computed = "ended"
                  /\ thr[t].caught = "" /\ thr[t].exc = "") =>
                 /\ thr[t].ret = "return"
                 /\ thr[t].retVal = PipeFrames[1]
                 /\ thr[t].errors = 0

\* one generate_video call loaded the pipeline, computed and returned the
\* first frame sequence; in another, load_pipeline failed and nothing was computed
C11_Witness ==
    \E t, u \in Threads :
        /\ Finished(t, "generate") /\ thr[t].sawEmpty /\ thr[t].trace = LoadSteps
        /\ thr[t].ret = "return" /\ thr[t].retVal = "frames0" /\ thr[t].errors = 0
        /\ Finished(u, "generate") /\ LoadIncomplete(u) /\ thr[u].computed = "no"
        /\ thr[u].caught = "Exception"

\* thread t's generate_video call, whose load_pipeline found the slot EMPTY
\* and failed in a load step, ends in this step
GenerateLoadFailureEnds(t) ==
    /\ thr[t].op = "generate" /\ LoadIncomplete(t) /\ thr[t].caught = "Exception"
    /\ thr[t].pc # "idle" /\ thr'[t].pc = "idle"

\* C12: a generate_video call whose load_pipeline fails on an EMPTY cache
\* ends with one error logged, the cache still EMPTY (so that the next call
\* loads again), gc.collect invoked once, and no exception reaching the
\* caller.
C12_LoadFailureInGenerate ==
    [][\A t \in Threads :
          GenerateLoadFailureEnds(t) =>
              /\ thr'[t].errors = 1
              /\ cached_pipe' = 0
              /\ Count(thr'[t].cleanup, "gc.collect") = 1
              /\ thr'[t].ret = "return"
              /\ thr'[t].exc = ""]_vars

Recorded(t) ==
    Finished(t, "record") /\ thr[t].ret = "return" /\ thr[t].caught = ""

\* C14: record_generation is not idempotent. Every call invokes
\* db.add_generation once; every call the backend served created a row of
\* its own, so two calls hold different row ids even when their fields are
\* identical, and no two rows share an id.
C14_NotIdempotent ==
    /\ \A t \in Threads : Finished(t, "record") => thr[t].dbCalls = 1
    /\ \A t \in Threads :
         Recorded(t) => (thr[t].retId \in DOMAIN db /\ db[thr[t].retId].id = thr[t].retId)
    /\ \A t, u \in Threads :
         (t # u /\ Recorded(t) /\ Recorded(u)) => thr[t].retId # thr[u].retId
    /\ \A i, j \in DOMAIN db : i # j => db[i].id # db[j].id

\* three calls with identical fields have created three rows
C14_Witness ==
    \E t, u \in Threads :
        /\ t # u /\ Recorded(t) /\ Recorded(u)
        /\ thr[t].args = thr[u].args
        /\ Len(db) = 3
        /\ \A i \in DOMAIN db : db[i].fields = thr[t].args
        /\ thr[t].retId # thr[u].retId

\* C15: every row record_generation hands to db.add_generation has status
\* "succeeded", and carries the caller's fields unchanged.
C15_AlwaysSucceeded ==
    /\ \A i \in DOMAIN db : db[i].status = "succeeded"
    /\ \A t \in Threads : Recorded(t) => db[thr[t].retId].fields = thr[t].args

\* calls with different fields have each stored a row with their own fields
C15_Witness ==
    \E t, u \in Threads :
        /\ Recorded(t) /\ Recorded(u)
        /\ thr[t].args.prompt = "a cat" /\ thr[u].args.prompt = "a dog"
        /\ db[thr[t].retId].fields.prompt = "a cat"
        /\ db[thr[u].retId].fields.prompt = "a dog"
        /\ db[thr[u].retId].status = "succeeded"

====
